---------------------------- MODULE Spec2Model ----------------------------
(***************************************************************************)
(* The icon generators of gtm-tooling: create-icons.py builds four PNG     *)
(* files with struct, zlib.crc32 and zlib.compress; create_icons.py writes *)
(* one base64-decoded PNG into the same four files.                        *)
(***************************************************************************)
EXTENDS Integers, Sequences, FiniteSets, TLC

VARIABLES
    script,     \* the script being run
    prior,      \* what the target files held before the first run
    pc,         \* the statement the script is at
    idx,          \* the index into sizes of the loop
    png_data,   \* create-icons.py: the local png_data of the loop body
    fs,         \* the file system: path -> bytes
    fs0,        \* the file system when the current run started
    handles,    \* the paths of the open file objects
    buffer,     \* the bytes the open file object holds, not yet in the file
    io,         \* the file operations of the current run, in order
    console,    \* the lines printed by the current run
    exc,        \* the exception that ended the run, or "none"
    runs,       \* the number of runs started
    fn          \* the frame of a call of create_minimal_png stepped through

main_vars == << script, prior, pc, idx, png_data, fs, fs0, handles, buffer, io,
               console, exc, runs >>

vars == << script, prior, pc, idx, png_data, fs, fs0, handles, buffer, io,
          console, exc, runs, fn >>

(***************************************************************************)
(* Control-flow helpers.  TLC evaluates RECURSIVE operators on the Java    *)
(* stack, so every loop of the program is unrolled by halving: the depth   *)
(* of the recursion is logarithmic in the number of iterations.            *)
(***************************************************************************)

\* while not Done(s): s = Step(s), for at most 2^k iterations
RECURSIVE While(_, _, _, _)
While(Done(_), Step(_), s, k) ==
    IF Done(s) THEN s
    ELSE IF k = 0 THEN Step(s)
    ELSE While(Done, Step, While(Done, Step, s, k - 1), k - 1)

\* The value e, with v computed first.  TLC computes a LET definition when it
\* is first used, nested in whatever is being evaluated then; computing the
\* stages of a long computation in order keeps the evaluation stack shallow.
Strict(v, e) == IF v = v THEN e ELSE e

\* the least k with 2^k >= n
RECURSIVE Depth(_)
Depth(n) == IF n <= 1 THEN 0 ELSE 1 + Depth((n + 1) \div 2)

\* for i in range(lo, hi + 1): s = Body(s, i)
For(Body(_, _), s, lo, hi) ==
    While(LAMBDA st : st.i > hi,
          LAMBDA st : [s |-> Body(st.s, st.i), i |-> st.i + 1],
          [s |-> s, i |-> lo], Depth(hi - lo + 1)).s

\* for i = hi downto lo: s = Body(s, i)
ForDown(Body(_, _), s, hi, lo) ==
    For(LAMBDA t, j : Body(t, hi + lo - j), s, lo, hi)

\* the least i in lo..hi with P(i), or hi + 1 when there is none
RECURSIVE FirstIn(_, _, _)
FirstIn(P(_), lo, hi) ==
    IF lo > hi THEN hi + 1
    ELSE IF lo = hi THEN (IF P(lo) THEN lo ELSE hi + 1)
    ELSE LET mid == (lo + hi) \div 2
             l == FirstIn(P, lo, mid)
         IN IF l <= mid THEN l ELSE LET r == FirstIn(P, mid + 1, hi)
                                    IN r

\* the greatest i in lo..hi with P(i), or lo - 1 when there is none
RECURSIVE LastIn(_, _, _)
LastIn(P(_), lo, hi) ==
    IF lo > hi THEN lo - 1
    ELSE IF lo = hi THEN (IF P(lo) THEN lo ELSE lo - 1)
    ELSE LET mid == (lo + hi) \div 2
             r == LastIn(P, mid + 1, hi)
         IN IF r > mid THEN r ELSE LET l == LastIn(P, lo, mid)
                                   IN IF l >= lo THEN l ELSE lo - 1

(***************************************************************************)
(* Bytes and machine integers.  A byte string is a sequence over 0..255.   *)
(* TLC's integers are 32-bit signed, so an unsigned 32-bit value (a CRC)   *)
(* is kept as its two 16-bit halves.                                       *)
(***************************************************************************)
Byte == 0..255

RECURSIVE Pow2(_)
Pow2(k) == IF k = 0 THEN 1 ELSE 2 * Pow2(k - 1)

RECURSIVE BitXor(_, _)
BitXor(a, b) ==
    IF a = 0 THEN b
    ELSE IF b = 0 THEN a
    ELSE ((a + b) % 2) + 2 * BitXor(a \div 2, b \div 2)

U32(v) == [hi |-> v \div 65536, lo |-> v % 65536]

U32Xor(a, b) == [hi |-> BitXor(a.hi, b.hi), lo |-> BitXor(a.lo, b.lo)]

\* a >> k for 0 <= k <= 16
U32Shr(a, k) ==
    [hi |-> a.hi \div Pow2(k),
     lo |-> (a.hi % Pow2(k)) * Pow2(16 - k) + (a.lo \div Pow2(k))]

\* struct.pack('>I', v) of an unsigned 32-bit value
PackU32(a) == << a.hi \div 256, a.hi % 256, a.lo \div 256, a.lo % 256 >>

\* struct.pack('>I', v) of a Python int in 0 .. 2^31 - 1
PackI(v) == PackU32(U32(v))

\* struct.pack('>B', v)
PackB(v) == << v % 256 >>

(***************************************************************************)
(* zlib.crc32: the reflected CRC-32 (polynomial 0xEDB88320), table-driven. *)
(***************************************************************************)
CrcPoly == [hi |-> 60856, lo |-> 33568]      \* 0xEDB8 8320

crc_step(c) ==
    IF c.lo % 2 = 1 THEN U32Xor(CrcPoly, U32Shr(c, 1)) ELSE U32Shr(c, 1)

crc_table ==
    [n \in Byte |-> crc_step(crc_step(crc_step(crc_step(
                    crc_step(crc_step(crc_step(crc_step(U32(n)))))))))]

crc_update(c, b) ==
    U32Xor(crc_table[BitXor(c.lo % 256, b)], U32Shr(c, 8))

crc32(bytes) ==
    LET AllOnes == [hi |-> 65535, lo |-> 65535]
        c == For(LAMBDA s, i : crc_update(s, bytes[i]), AllOnes, 1, Len(bytes))
    IN U32Xor(c, AllOnes)

(***************************************************************************)
(* zlib.adler32, the checksum that ends a zlib stream.                     *)
(***************************************************************************)
ADLER_BASE == 65521

adler32(bytes) ==
    LET s == For(LAMBDA t, i : LET a == (t.a + bytes[i]) % ADLER_BASE
                               IN [a |-> a, b |-> (t.b + a) % ADLER_BASE],
                 [a |-> 1, b |-> 0], 1, Len(bytes))
    IN [hi |-> s.b, lo |-> s.a]

(***************************************************************************)
(* zlib.compress(data): zlib 1.2.13, deflate at the default level 6, one   *)
(* call of deflate(Z_FINISH) on the whole input.  The model covers inputs  *)
(* that fit the 64 KiB window without sliding (at most 65274 bytes) and    *)
(* give fewer than 16383 symbols, so that the stream is one deflate block; *)
(* the largest input of the program is 49280 bytes and gives 260 symbols.  *)
(*                                                                         *)
(* String matching (deflate.c).  Positions are 0-based as in zlib.         *)
(***************************************************************************)
MIN_MATCH == 3
MAX_MATCH == 258
MIN_LOOKAHEAD == MAX_MATCH + MIN_MATCH + 1
w_size == 32768
MAX_DIST == w_size - MIN_LOOKAHEAD
TOO_FAR == 4096
NIL == 0
\* configuration_table[6]
good_match == 8
max_lazy_match == 16
nice_match == 128
max_chain_length == 128

\* window[p]: the input, followed by the zeroed bytes past its end
Window(data, p) == IF p < Len(data) THEN data[p + 1] ELSE 0

\* UPDATE_HASH with hash_bits = 15, hash_shift = 5
UPDATE_HASH(h, c) == BitXor(h * 32, c) % 32768

\* ins_h once the three bytes at p have been fed in
hash_at(data, p) ==
    UPDATE_HASH(UPDATE_HASH(Window(data, p), Window(data, p + 1)),
                Window(data, p + 2))

\* The hash of every position INSERT_STRING is called on: deflate_slow
\* inserts every position 0 .. n-3, in increasing order.
hash_of(data) == [p \in 0 .. Len(data) - MIN_MATCH |-> hash_at(data, p)]

\* head[ins_h] when p is inserted, which is also prev[p]: the last position
\* inserted before p with the hash of p.  Position 0 reads as NIL.
prev_of(hs, p) == LastIn(LAMBDA q : hs[q] = hs[p], 1, p - 1)

longest_match(data, hs, cur_match, strstart, prev_length, match_start) ==
    LET lookahead == Len(data) - strstart
        limit == IF strstart > MAX_DIST THEN strstart - MAX_DIST ELSE NIL
        chain0 == IF prev_length >= good_match
                  THEN max_chain_length \div 4 ELSE max_chain_length
        nice == IF nice_match > lookahead THEN lookahead ELSE nice_match
        Eq(m, k) == Window(data, m + k) = Window(data, strstart + k)
        Step(s) ==
            LET m == s.cur
                skip == \/ ~Eq(m, s.best)
                        \/ ~Eq(m, s.best - 1)
                        \/ ~Eq(m, 0)
                        \/ ~Eq(m, 1)
                len == FirstIn(LAMBDA k : ~Eq(m, k), 3, MAX_MATCH - 1)
                better == ~skip /\ len > s.best
                best == IF better THEN len ELSE s.best
                start == IF better THEN m ELSE s.start
                next == prev_of(hs, m)
            IN IF better /\ len >= nice
               THEN [cur |-> m, chain |-> s.chain, best |-> best,
                     start |-> start, done |-> TRUE]
               ELSE [cur |-> next, chain |-> s.chain - 1, best |-> best,
                     start |-> start,
                     done |-> next <= limit \/ s.chain - 1 = 0]
        r == While(LAMBDA s : s.done, Step,
                   [cur |-> cur_match, chain |-> chain0, best |-> prev_length,
                    start |-> match_start, done |-> FALSE], 7)
    IN [len |-> IF r.best <= lookahead THEN r.best ELSE lookahead,
        start |-> r.start]

\* the match at strstart: the longest one of the hash chain of strstart,
\* searched only when the previous match is shorter than max_lazy_match
find_match(data, hs, s, hash_head) ==
    IF /\ hash_head # NIL
       /\ s.match_length < max_lazy_match
       /\ s.strstart - hash_head <= MAX_DIST
    THEN longest_match(data, hs, hash_head, s.strstart, s.match_length,
                       s.match_start)
    ELSE [len |-> MIN_MATCH - 1, start |-> s.match_start]

\* a match of length MIN_MATCH that is too far away is dropped
kept_length(s, lm) ==
    IF /\ lm.len <= 5
       /\ lm.len = MIN_MATCH
       /\ s.strstart - lm.start > TOO_FAR
    THEN MIN_MATCH - 1 ELSE lm.len

\* the end of the iteration; s.match_length and s.match_start are
\* prev_length and prev_match
deflate_slow_emit(data, s, lm, match_length) ==
    IF s.match_length >= MIN_MATCH /\ match_length <= s.match_length
    THEN \* _tr_tally_dist of the previous match, then skip over it
         [strstart |-> s.strstart + s.match_length - 1,
          match_length |-> MIN_MATCH - 1,
          match_start |-> lm.start,
          match_available |-> FALSE,
          syms |-> Append(s.syms, [dist |-> s.strstart - 1 - s.match_start,
                                   lc |-> s.match_length - MIN_MATCH])]
    ELSE IF s.match_available
    THEN \* _tr_tally_lit of the previous byte
         [strstart |-> s.strstart + 1,
          match_length |-> match_length,
          match_start |-> lm.start,
          match_available |-> TRUE,
          syms |-> Append(s.syms, [dist |-> 0,
                                   lc |-> Window(data, s.strstart - 1)])]
    ELSE [strstart |-> s.strstart + 1,
          match_length |-> match_length,
          match_start |-> lm.start,
          match_available |-> TRUE,
          syms |-> s.syms]

deflate_slow_lazy(data, s, lm) ==
    deflate_slow_emit(data, s, lm, kept_length(s, lm))

\* one iteration of the loop of deflate_slow
deflate_slow_step(data, hs, s) ==
    deflate_slow_lazy(data, s,
        find_match(data, hs, s,
                   IF Len(data) - s.strstart >= MIN_MATCH
                   THEN prev_of(hs, s.strstart) ELSE NIL))

\* the loop of deflate_slow, until the lookahead is empty
deflate_slow_loop(data, hs) ==
    Strict(hs,
      While(LAMBDA s : s.strstart >= Len(data),
            LAMBDA s : deflate_slow_step(data, hs, s),
            [strstart |-> 0, match_length |-> MIN_MATCH - 1,
             match_start |-> 0, match_available |-> FALSE,
             syms |-> << >>], Depth(Len(data))))

\* after the loop: the literal that is still pending
deflate_slow_last(data, r) ==
    IF r.match_available
    THEN Append(r.syms, [dist |-> 0, lc |-> Window(data, r.strstart - 1)])
    ELSE r.syms

\* deflate_slow: the symbols (literals and length/distance pairs) of the
\* block, in the order _tr_tally records them
deflate_slow(data) == deflate_slow_last(data, deflate_slow_loop(data, hash_of(data)))

(***************************************************************************)
(* Huffman trees and the block's bits (trees.c).                           *)
(***************************************************************************)
LITERALS == 256
END_BLOCK == 256
LENGTH_CODES == 29
L_CODES == LITERALS + 1 + LENGTH_CODES
D_CODES == 30
BL_CODES == 19
MAX_BITS == 15
MAX_BL_BITS == 7
REP_3_6 == 16
REPZ_3_10 == 17
REPZ_11_138 == 18
STORED_BLOCK == 0
STATIC_TREES == 1
DYN_TREES == 2

\* the tables of trees.c / trees.h, indexed from 1 here (code c is entry c+1)
extra_lbits ==
    << 0,0,0,0,0,0,0,0,1,1,1,1,2,2,2,2,3,3,3,3,4,4,4,4,5,5,5,5,0 >>
extra_dbits ==
    << 0,0,0,0,1,1,2,2,3,3,4,4,5,5,6,6,7,7,8,8,9,9,10,10,11,11,12,12,13,13 >>
extra_blbits == << 0,0,0,0,0,0,0,0,0,0,0,0,0,0,0,0,2,3,7 >>
bl_order == << 16,17,18,0,8,7,9,6,10,5,11,4,12,3,13,2,14,1,15 >>
base_length ==
    << 0,1,2,3,4,5,6,7,8,10,12,14,16,20,24,28,32,40,48,56,64,80,96,112,128,
       160,192,224,0 >>
base_dist ==
    << 0,1,2,3,4,6,8,12,16,24,32,48,64,96,128,192,256,384,512,768,1024,1536,
       2048,3072,4096,6144,8192,12288,16384,24576 >>

\* _length_code[lc], lc = match length - MIN_MATCH; 255 has its own code
length_code(lc) ==
    IF lc = 255 THEN LENGTH_CODES - 1
    ELSE LastIn(LAMBDA c : base_length[c + 1] <= lc, 0, LENGTH_CODES - 2)

\* d_code(dist), dist = match distance - 1
d_code(dist) == LastIn(LAMBDA c : base_dist[c + 1] <= dist, 0, D_CODES - 1)

\* bi_reverse: the low len bits of code, reversed
RECURSIVE bi_reverse(_, _)
bi_reverse(code, len) ==
    IF len = 0 THEN 0
    ELSE ((code % 2) * Pow2(len - 1)) + bi_reverse(code \div 2, len - 1)

\* send_bits: the bits go out least significant first
send_bits(value, length) == [i \in 1 .. length |-> (value \div Pow2(i - 1)) % 2]

\* bi_windup and the pending buffer: the bits packed into bytes, low bit first
bits_to_bytes(bits) ==
    LET Bit(k) == IF k <= Len(bits) THEN bits[k] ELSE 0
    IN [i \in 1 .. (Len(bits) + 7) \div 8 |->
            Bit(8*i - 7) + 2 * Bit(8*i - 6) + 4 * Bit(8*i - 5) + 8 * Bit(8*i - 4)
            + 16 * Bit(8*i - 3) + 32 * Bit(8*i - 2) + 64 * Bit(8*i - 1)
            + 128 * Bit(8*i)]

\* smaller(tree, n, m, depth)
smaller(t, n, m) ==
    \/ t.freq[n] < t.freq[m]
    \/ t.freq[n] = t.freq[m] /\ t.depth[n] <= t.depth[m]

pqdownheap(t, k0) ==
    LET v == t.heap[k0]
        Step(s) ==
            LET j == IF s.j < t.heap_len
                        /\ smaller(t, s.heap[s.j + 1], s.heap[s.j])
                     THEN s.j + 1 ELSE s.j
            IN IF smaller(t, v, s.heap[j])
               THEN [s EXCEPT !.done = TRUE]
               ELSE [heap |-> [s.heap EXCEPT ![s.k] = s.heap[j]],
                     k |-> j, j |-> 2 * j, done |-> 2 * j > t.heap_len]
        r == While(LAMBDA s : s.done, Step,
                   [heap |-> t.heap, k |-> k0, j |-> 2 * k0,
                    done |-> 2 * k0 > t.heap_len], 4)
    IN [t EXCEPT !.heap = [r.heap EXCEPT ![r.k] = v]]

\* gen_bitlen: the bit length of every node, and the repair of the lengths
\* that exceed max_length
gen_bitlen(t, size, max_length) ==
    LET g0 == [len |-> [n \in 0 .. size - 1 |-> 0],
               bl_count |-> [b \in 0 .. MAX_BITS |-> 0],
               overflow |-> 0]
        g1 == For(LAMBDA g, h :
                    LET n == t.heap[h]
                        b0 == g.len[t.dad[n]] + 1
                        bits == IF b0 > max_length THEN max_length ELSE b0
                    IN [len |-> [g.len EXCEPT ![n] = bits],
                        bl_count |-> IF n > t.max_code THEN g.bl_count
                                     ELSE [g.bl_count EXCEPT ![bits] = @ + 1],
                        overflow |-> g.overflow
                                     + (IF b0 > max_length THEN 1 ELSE 0)],
                  g0, t.heap_max + 1, size - 1)
        g2 == While(LAMBDA g : g.overflow <= 0,
                    LAMBDA g :
                      LET bits == LastIn(LAMBDA b : g.bl_count[b] # 0,
                                         1, max_length - 1)
                      IN [g EXCEPT !.bl_count[bits] = @ - 1,
                                   !.bl_count[bits + 1] = @ + 2,
                                   !.bl_count[max_length] = @ - 1,
                                   !.overflow = @ - 2],
                    g1, 9)
        \* the leaves, from the end of the heap, take the lengths
        \* max_length, ..., 1, bl_count[bits] of them each
        g3 == ForDown(LAMBDA s, h :
                        LET m == t.heap[h]
                            bits == IF s.n # 0 THEN s.bits
                                    ELSE LastIn(LAMBDA b : g2.bl_count[b] # 0,
                                                1, s.bits - 1)
                            n == IF s.n # 0 THEN s.n ELSE g2.bl_count[bits]
                        IN IF m > t.max_code \/ bits < 1 THEN s
                           ELSE [len |-> [s.len EXCEPT ![m] = bits],
                                 bits |-> bits, n |-> n - 1],
                      [len |-> g1.len, bits |-> max_length,
                       n |-> g2.bl_count[max_length]],
                      size - 1, t.heap_max)
    IN Strict(g1, IF g1.overflow = 0 THEN g1.len ELSE Strict(g2, g3.len))

\* build_tree: the heap of the codes of non zero frequency
heap_init(freq, elems) ==
    LET zeros == [n \in 0 .. 2 * elems |-> 0]
    IN For(LAMBDA t, n :
             IF t.freq[n] # 0
             THEN [t EXCEPT !.heap[t.heap_len + 1] = n,
                            !.heap_len = @ + 1, !.max_code = n]
             ELSE t,
           [freq |-> [n \in 0 .. 2 * elems |-> IF n < elems THEN freq[n] ELSE 0],
            depth |-> zeros, dad |-> zeros, heap |-> zeros,
            heap_len |-> 0, heap_max |-> 2 * elems + 1, max_code |-> -1,
            node |-> elems],
           0, elems - 1)

\* build_tree: force at least two codes of non zero frequency
heap_force(t) ==
    Strict(t,
      While(LAMBDA u : u.heap_len >= 2,
            LAMBDA u :
              LET node == IF u.max_code < 2 THEN u.max_code + 1 ELSE 0
              IN [u EXCEPT !.heap[u.heap_len + 1] = node,
                           !.heap_len = @ + 1,
                           !.max_code = IF @ < 2 THEN @ + 1 ELSE @,
                           !.freq[node] = 1, !.depth[node] = 0],
            t, 1))

\* build_tree: the initial heap
heap_build(t) ==
    Strict(t, ForDown(LAMBDA u, n : pqdownheap(u, n), t, t.heap_len \div 2, 1))

\* build_tree: n was the least frequent node and is off the heap a; the next
\* least frequent, m, is joined with it in a new node
heap_join(a, n) ==
    LET m == a.heap[1]
        node == a.node
        dn == a.depth[n]
        dm == a.depth[m]
    IN pqdownheap(
         [a EXCEPT !.heap[a.heap_max - 1] = n,
                   !.heap[a.heap_max - 2] = m,
                   !.heap_max = @ - 2,
                   !.freq[node] = a.freq[n] + a.freq[m],
                   !.depth[node] = (IF dn >= dm THEN dn ELSE dm) + 1,
                   !.dad[n] = node, !.dad[m] = node,
                   !.heap[1] = node, !.node = @ + 1], 1)

\* build_tree: one iteration of the loop that joins the two least frequent
\* nodes
heap_combine(t) ==
    heap_join(pqdownheap([t EXCEPT !.heap[1] = t.heap[t.heap_len],
                                   !.heap_len = @ - 1], 1),
              t.heap[1])

\* build_tree: do { ... } while (heap_len >= 2), then the root
heap_reduce(t) ==
    Strict(t, While(LAMBDA u : u.heap_len < 2, heap_combine, heap_combine(t), 9))

heap_finish(t) ==
    Strict(t, [t EXCEPT !.heap[t.heap_max - 1] = t.heap[1], !.heap_max = @ - 1])

tree_desc(len, elems, max_code) ==
    Strict(len, [len |-> [n \in 0 .. elems - 1 |-> len[n]],
                 max_code |-> max_code])

tree_lengths(t, elems, max_length) ==
    Strict(t, tree_desc(gen_bitlen(t, 2 * elems + 1, max_length), elems,
                        t.max_code))

\* build_tree: the code lengths of the optimal tree for the frequencies
\* freq[0 .. elems-1], none longer than max_length, and the largest code used
build_tree(freq, elems, max_length) ==
    tree_lengths(
        heap_finish(heap_reduce(heap_build(heap_force(heap_init(freq, elems))))),
        elems, max_length)

\* gen_codes: the canonical code of every length, bit-reversed
gen_codes(len, max_code) ==
    LET bl_count == [b \in 0 .. MAX_BITS |->
                       IF b = 0 THEN 0
                       ELSE Cardinality({n \in 0 .. max_code : len[n] = b})]
        next_code == For(LAMBDA nc, bits :
                           [nc EXCEPT ![bits] = (nc[bits - 1] + bl_count[bits - 1]) * 2],
                         [b \in 0 .. MAX_BITS |-> 0], 1, MAX_BITS)
    IN [n \in 0 .. max_code |->
          IF len[n] = 0 THEN 0
          ELSE bi_reverse(next_code[len[n]]
                          + Cardinality({m \in 0 .. n - 1 : len[m] = len[n]}),
                          len[n])]

\* tr_static_init
static_llen ==
    [n \in 0 .. L_CODES + 1 |->
        IF n <= 143 THEN 8 ELSE IF n <= 255 THEN 9 ELSE IF n <= 279 THEN 7 ELSE 8]
static_ltree == [len |-> static_llen, code |-> gen_codes(static_llen, L_CODES + 1)]
static_dtree == [len |-> [n \in 0 .. D_CODES - 1 |-> 5],
                 code |-> [n \in 0 .. D_CODES - 1 |-> bi_reverse(n, 5)]]

\* scan_tree / send_tree: the code lengths len[0 .. max_code], run-length
\* coded into symbols of the bit length tree, each with its extra bits
send_tree(len, max_code) ==
    LET Counts(nextlen, curlen) ==
            IF nextlen = 0 THEN [max |-> 138, min |-> 3]
            ELSE IF curlen = nextlen THEN [max |-> 6, min |-> 3]
            ELSE [max |-> 7, min |-> 4]
        Body(s, n) ==
            LET curlen == len[n]
                nextlen == IF n = max_code THEN 65535 ELSE len[n + 1]
                count == s.count + 1
                item(sym, extra) == [sym |-> sym, extra |-> extra]
                out == IF count < s.lim.min
                       THEN [k \in 1 .. count |-> item(curlen, 0)]
                       ELSE IF curlen # 0
                       THEN (IF curlen # s.prevlen
                             THEN << item(curlen, 0), item(REP_3_6, count - 1 - 3) >>
                             ELSE << item(REP_3_6, count - 3) >>)
                       ELSE IF count <= 10
                       THEN << item(REPZ_3_10, count - 3) >>
                       ELSE << item(REPZ_11_138, count - 11) >>
            IN IF count < s.lim.max /\ curlen = nextlen
               THEN [s EXCEPT !.count = count]
               ELSE [items |-> s.items \o out, count |-> 0, prevlen |-> curlen,
                     lim |-> Counts(nextlen, curlen)]
    IN For(Body,
           [items |-> << >>, count |-> 0, prevlen |-> -1,
            lim |-> Counts(len[0], -1)],
           0, max_code).items

\* the bits of one symbol: its code, then its extra bits
send_code(c, tree) == send_bits(tree.code[c], tree.len[c])

\* compress_block: the symbols of the block, then END_BLOCK
compress_block(syms, ltree, dtree) ==
    For(LAMBDA bits, i :
          LET s == syms[i]
              lcode == length_code(s.lc)
              dist == s.dist - 1
              dcode == d_code(dist)
          IN IF s.dist = 0
             THEN bits \o send_code(s.lc, ltree)
             ELSE bits \o send_code(lcode + LITERALS + 1, ltree)
                       \o send_bits(s.lc - base_length[lcode + 1], extra_lbits[lcode + 1])
                       \o send_code(dcode, dtree)
                       \o send_bits(dist - base_dist[dcode + 1], extra_dbits[dcode + 1]),
        << >>, 1, Len(syms))
    \o send_code(END_BLOCK, ltree)

\* _tr_tally: the frequencies of the literal/length and of the distance codes
tally(syms) ==
    For(LAMBDA f, i :
          LET s == syms[i]
          IN IF s.dist = 0
             THEN [f EXCEPT !.l[s.lc] = @ + 1]
             ELSE [f EXCEPT !.l[length_code(s.lc) + LITERALS + 1] = @ + 1,
                            !.d[d_code(s.dist - 1)] = @ + 1],
        [l |-> [n \in 0 .. L_CODES - 1 |-> IF n = END_BLOCK THEN 1 ELSE 0],
         d |-> [n \in 0 .. D_CODES - 1 |-> 0]],
        1, Len(syms))

\* the length in bits of the block's symbols under the given code lengths
\* (opt_len and static_len as gen_bitlen accumulates them)
coded_len(freq, llen, dlen) ==
    For(LAMBDA t, n :
          t + freq.l[n] * (llen[n] + (IF n > LITERALS THEN extra_lbits[n - LITERALS] ELSE 0)),
        0, 0, L_CODES - 1)
    + For(LAMBDA t, n : t + freq.d[n] * (dlen[n] + extra_dbits[n + 1]),
          0, 0, D_CODES - 1)

\* The stages of _tr_flush_block work on the state s of the block: a record
\* that each stage extends with what it computes.
block_state(data, syms) == [data |-> data, syms |-> syms, freq |-> tally(syms)]

\* build_tree(s, &s->l_desc), build_tree(s, &s->d_desc)
with_l_desc(s) ==
    Strict(s, [l_desc |-> build_tree(s.freq.l, L_CODES, MAX_BITS)] @@ s)

with_d_desc(s) ==
    Strict(s, [d_desc |-> build_tree(s.freq.d, D_CODES, MAX_BITS)] @@ s)

\* build_bl_tree: scan_tree of both trees
with_items(s) ==
    Strict(s, [items |-> send_tree(s.l_desc.len, s.l_desc.max_code)
                         \o send_tree(s.d_desc.len, s.d_desc.max_code)] @@ s)

with_bl_freq(s) ==
    Strict(s, [bl_freq |-> For(LAMBDA f, k : [f EXCEPT ![s.items[k].sym] = @ + 1],
                               [n \in 0 .. BL_CODES - 1 |-> 0],
                               1, Len(s.items))] @@ s)

\* build_bl_tree: build_tree(s, &s->bl_desc)
with_bl_desc(s) ==
    Strict(s, [bl_desc |-> build_tree(s.bl_freq, BL_CODES, MAX_BL_BITS)] @@ s)

\* build_bl_tree: the index of the last bit length code to send
with_max_blindex(s) ==
    Strict(s, [max_blindex |->
                  LastIn(LAMBDA r : s.bl_desc.len[bl_order[r + 1]] # 0,
                         3, BL_CODES - 1)] @@ s)

\* opt_len and static_len, in bits
with_lens(s) ==
    Strict(s,
      [opt_len |-> coded_len(s.freq, s.l_desc.len, s.d_desc.len)
                   + For(LAMBDA t, n :
                           t + s.bl_freq[n]
                               * (s.bl_desc.len[n] + extra_blbits[n + 1]),
                         0, 0, BL_CODES - 1)
                   + 3 * (s.max_blindex + 1) + 5 + 5 + 4,
       static_len |-> coded_len(s.freq, static_ltree.len, static_dtree.len)]
      @@ s)

static_lenb(s) == (s.static_len + 3 + 7) \div 8

opt_lenb(s) ==
    IF static_lenb(s) <= (s.opt_len + 3 + 7) \div 8
    THEN static_lenb(s) ELSE (s.opt_len + 3 + 7) \div 8

\* bi_windup
packed(bits) == Strict(bits, bits_to_bytes(bits))

\* _tr_stored_block
stored_block(s) ==
    bits_to_bytes(send_bits(STORED_BLOCK * 2 + 1, 3))
    \o << Len(s.data) % 256, Len(s.data) \div 256,
          255 - (Len(s.data) % 256), 255 - (Len(s.data) \div 256) >>
    \o s.data

static_block(s) ==
    packed(send_bits(STATIC_TREES * 2 + 1, 3)
           \o compress_block(s.syms, static_ltree, static_dtree))

\* a tree as compress_block reads it: the lengths and the codes
tree_of(desc) ==
    [len |-> desc.len, code |-> gen_codes(desc.len, desc.max_code)]

\* send_all_trees
send_all_trees(s, bl_tree) ==
    send_bits(s.l_desc.max_code + 1 - 257, 5)
    \o send_bits(s.d_desc.max_code + 1 - 1, 5)
    \o send_bits(s.max_blindex + 1 - 4, 4)
    \o For(LAMBDA bits, r : bits \o send_bits(s.bl_desc.len[bl_order[r + 1]], 3),
           << >>, 0, s.max_blindex)
    \o For(LAMBDA bits, k :
             bits \o send_code(s.items[k].sym, bl_tree)
                  \o send_bits(s.items[k].extra,
                               extra_blbits[s.items[k].sym + 1]),
           << >>, 1, Len(s.items))

dyn_bits(s, ltree, dtree, bl_tree) ==
    Strict(ltree, Strict(dtree, Strict(bl_tree,
      send_bits(DYN_TREES * 2 + 1, 3)
      \o send_all_trees(s, bl_tree)
      \o compress_block(s.syms, ltree, dtree))))

dyn_block(s) ==
    packed(dyn_bits(s, tree_of(s.l_desc), tree_of(s.d_desc), tree_of(s.bl_desc)))

\* the choice between a stored block, the static trees and the dynamic trees
flush_block(s) ==
    Strict(s,
      IF Len(s.data) + 4 <= opt_lenb(s) THEN stored_block(s)
      ELSE IF static_lenb(s) = opt_lenb(s) THEN static_block(s)
      ELSE dyn_block(s))

\* _tr_flush_block(last = 1) of the only block, and bi_windup
tr_flush_block(data, syms) ==
    flush_block(with_lens(with_max_blindex(with_bl_desc(with_bl_freq(
        with_items(with_d_desc(with_l_desc(block_state(data, syms)))))))))

zlib_stream(data, syms) ==
    Strict(syms, << 120, 156 >> \o tr_flush_block(data, syms)
                                \o PackU32(adler32(data)))

\* deflate(Z_FINISH): the zlib header (CMF 0x78, FLG 0x9c for level 6), the
\* deflate block, the Adler-32 of the input
zlib_compress(data) == Strict(data, zlib_stream(data, deflate_slow(data)))

(***************************************************************************)
(* create-icons.py: create_minimal_png(width, height), lines 9-42.         *)
(* The model covers 0 <= width, height < 2^31; struct.pack raises          *)
(* struct.error outside 0 .. 2^32 - 1.                                     *)
(***************************************************************************)
\* b'\x89PNG\r\n\x1a\n'
signature == << 137, 80, 78, 71, 13, 10, 26, 10 >>
\* b'IHDR', b'IDAT', b'IEND'
IHDR == << 73, 72, 68, 82 >>
IDAT == << 73, 68, 65, 84 >>
IEND == << 73, 69, 78, 68 >>
\* A fault C9 detects: a pixel with an alpha byte under colour type 2
pixel_rgba == << 0, 119, 181, 255 >>

\* b'\x00\x77\xb5', LinkedIn blue
pixel == << 0, 119, 181 >>
\* b'\x00', no filter
filter_byte == << 0 >>

\* struct.pack('<I', v): the low byte first
PackLE(v) == << v % 256, (v \div 256) % 256, (v \div 65536) % 256, v \div 16777216 >>

\* A fault C1 detects: the IHDR fields packed with '<IIBBBBB'
ihdr_data_le(width, height) ==
    PackLE(width) \o PackLE(height)
    \o PackB(8) \o PackB(2) \o PackB(0) \o PackB(0) \o PackB(0)

\* struct.pack('>IIBBBBB', width, height, 8, 2, 0, 0, 0)
ihdr_data(width, height) ==
    PackI(width) \o PackI(height)
    \o PackB(8) \o PackB(2) \o PackB(0) \o PackB(0) \o PackB(0)

\* A fault C2 detects: the CRC taken over the payload without the chunk type
ihdr_crc_payload(width, height) == crc32(ihdr_data(width, height))

ihdr_crc(width, height) == crc32(IHDR \o ihdr_data(width, height))

ihdr_chunk(width, height) ==
    PackI(13) \o IHDR \o ihdr_data(width, height)
    \o PackU32(ihdr_crc(width, height))

\* one row: the filter byte, then the pixels
row_of(width) == For(LAMBDA row, x : row \o pixel, filter_byte, 0, width - 1)

raw_data_of(width, height) ==
    For(LAMBDA raw_data, y : raw_data \o row_of(width), << >>, 0, height - 1)

idat_crc(compressed) == crc32(IDAT \o compressed)

\* A fault C8 detects: the length field counts the chunk type as well
idat_chunk_typed(compressed) ==
    PackI(Len(IDAT \o compressed)) \o IDAT \o compressed
    \o PackU32(idat_crc(compressed))

idat_chunk(compressed) ==
    PackI(Len(compressed)) \o IDAT \o compressed \o PackU32(idat_crc(compressed))

iend_crc == crc32(IEND)

iend_chunk == PackI(0) \o IEND \o PackU32(iend_crc)

\* signature + ihdr_chunk + idat_chunk + iend_chunk
combine(ihdr, idat, iend) == signature \o ihdr \o idat \o iend

\* lines 31-40, once the raw data is compressed
png_of(width, height, compressed) ==
    Strict(compressed,
      combine(ihdr_chunk(width, height), idat_chunk(compressed), iend_chunk))

create_minimal_png(width, height) ==
    png_of(width, height, zlib_compress(raw_data_of(width, height)))

(***************************************************************************)
(* create_icons.py: base64.b64decode(blue_pixel), lines 10 and 19.         *)
(* A string is modelled as the sequence of its characters.                 *)
(***************************************************************************)
blue_pixel ==
    << "i", "V", "B", "O", "R", "w", "0", "K", "G", "g", "o", "A", "A", "A",
       "A", "N", "S", "U", "h", "E", "U", "g", "A", "A", "A", "A", "E", "A",
       "A", "A", "A", "B", "C", "A", "Y", "A", "A", "A", "A", "f", "F", "c",
       "S", "J", "A", "A", "A", "A", "D", "U", "l", "E", "Q", "V", "R", "4",
       "2", "m", "N", "k", "Y", "P", "h", "f", "D", "w", "A", "C", "h", "w",
       "G", "A", "6", "0", "e", "6", "k", "g", "A", "A", "A", "A", "B", "J",
       "R", "U", "5", "E", "r", "k", "J", "g", "g", "g", "=", "=" >>

b64_alphabet ==
    << "A", "B", "C", "D", "E", "F", "G", "H", "I", "J", "K", "L", "M", "N",
       "O", "P", "Q", "R", "S", "T", "U", "V", "W", "X", "Y", "Z", "a", "b",
       "c", "d", "e", "f", "g", "h", "i", "j", "k", "l", "m", "n", "o", "p",
       "q", "r", "s", "t", "u", "v", "w", "x", "y", "z", "0", "1", "2", "3",
       "4", "5", "6", "7", "8", "9", "+", "/" >>

\* the 6-bit value of a character of the alphabet
b64_value(c) == (CHOOSE k \in 1 .. 64 : b64_alphabet[k] = c) - 1

\* the bytes of one group of four characters; "=" pads the last group
b64_quad(c1, c2, c3, c4) ==
    LET v == b64_value(c1) * 262144 + b64_value(c2) * 4096
             + (IF c3 = "=" THEN 0 ELSE b64_value(c3) * 64)
             + (IF c4 = "=" THEN 0 ELSE b64_value(c4))
    IN IF c3 = "=" THEN << v \div 65536 >>
       ELSE IF c4 = "=" THEN << v \div 65536, (v \div 256) % 256 >>
       ELSE << v \div 65536, (v \div 256) % 256, v % 256 >>

\* A fault C3 detects: the padding decoded as zero bits, three bytes a group
b64decode_unpadded(s) ==
    For(LAMBDA out, q :
          out \o b64_quad(s[4*q - 3], s[4*q - 2],
                          IF s[4*q - 1] = "=" THEN "A" ELSE s[4*q - 1],
                          IF s[4*q] = "=" THEN "A" ELSE s[4*q]),
        << >>, 1, Len(s) \div 4)

\* base64.b64decode(s) of a padded string of the standard alphabet
b64decode(s) ==
    For(LAMBDA out, q :
          out \o b64_quad(s[4*q - 3], s[4*q - 2], s[4*q - 1], s[4*q]),
        << >>, 1, Len(s) \div 4)

(***************************************************************************)
(* The two scripts.  Both are one loop over sizes; each iteration opens    *)
(* the target file, writes the bytes, closes the file and prints a line.   *)
(***************************************************************************)
Scripts == { "create-icons.py", "create_icons.py" }

sizes == << 16, 32, 48, 128 >>

\* A fault C5 detects: the file name without the directory
filename_flat(size) == "icon" \o ToString(size) \o ".png"

\* f'assets/icons/icon{size}.png'
filename(size) == "assets/icons/icon" \o ToString(size) \o ".png"

\* create_minimal_png(size, size) of line 48.  The function is pure: its
\* values at the sizes of line 45 are computed once.
png_table ==
    [k \in 1 .. Len(sizes) |-> create_minimal_png(sizes[k], sizes[k])]

\* print(f'Created {filename}') / print(f"Created icon{size}.png")
status_line(s, size) ==
    IF s = "create-icons.py"
    THEN "Created " \o filename(size)
    ELSE "Created icon" \o ToString(size) \o ".png"

\* A fault C6 detects: one final line in either script
summary_single(s) ==
    IF s = "create-icons.py"
    THEN << "All icon files created successfully!" >>
    ELSE << "Icon files created. These are placeholder 1x1 blue pixels." >>

\* the print statements after the loop
summary_lines(s) ==
    IF s = "create-icons.py"
    THEN << "All icon files created successfully!" >>
    ELSE << "Icon files created. These are placeholder 1x1 blue pixels.",
            "For production, replace with proper icon files." >>

\* the first statement of the loop body
loop_pc(s) == IF s = "create-icons.py" THEN "call" ELSE "open"

\* the bytes handed to f.write: png_data (create-icons.py line 52),
\* base64.b64decode(blue_pixel) (create_icons.py line 19)
write_arg(s, png) == IF s = "create-icons.py" THEN png ELSE b64decode(blue_pixel)

\* A fault C4 detects: the file opened without truncation (mode 'r+b' where
\* it exists)
open_keep(fsys, path) ==
    IF path \in DOMAIN fsys THEN fsys ELSE (path :> << >>) @@ fsys

\* open(path, 'wb'): the file is created, or truncated when it exists
open_wb(fsys, path) == (path :> << >>) @@ fsys

\* f.write(data) on a file object opened with 'wb': the object is buffered
\* and every output of the scripts (70 to 404 bytes) is shorter than its
\* buffer, so the bytes are only appended to the buffer
buffered(buf, data) == buf \o data

\* the bytes the operating system may have taken when flushing data fails:
\* any number of them (a file size limit, a full disk), or all of them when
\* only the close is refused
accepted(data) == 0 .. Len(data)

\* the flush of the buffer into the file just opened: the bytes go in at
\* position 0
write_to(fsys, path, data) ==
    (path :> (data \o SubSeq(fsys[path], Len(data) + 1, Len(fsys[path]))))
    @@ fsys

\* A fault C10 detects: the file object is never closed
release_leak(open_handles, f) == open_handles

\* the end of the with block closes f, also when the body raised
release(open_handles, f) == open_handles \ { f }

\* A fault C7 detects: the exception swallowed, the loop body going on
after_exception_swallowed == "print"

\* no try/except anywhere: an exception ends the script
after_exception == "failed"

(***************************************************************************)
(* The state machine.  A run of a script is the loop over sizes followed   *)
(* by the final prints.  The file system maps each existing path to its    *)
(* bytes.  open may raise OSError (a missing directory, a permission       *)
(* error); f.write only fills the buffer of the file object, so a failing  *)
(* write (a full disk, a file size limit) raises OSError when the with     *)
(* block closes the file: the environment decides.                         *)
(***************************************************************************)
MaxRuns == 2

\* a file of the output directory that is no target of the scripts
OtherPath == "assets/icons/icon64.png"

\* contents the target files may have before the first run
PriorKinds == { "absent", "short", "long" }

prior_bytes(kind) ==
    IF kind = "short" THEN << 1, 2, 3 >> ELSE [j \in 1 .. 600 |-> 255]

prior_fs(kind) ==
    IF kind = "absent"
    THEN (OtherPath :> << 9 >>)
    ELSE [p \in { filename(sizes[k]) : k \in 1 .. Len(sizes) } \cup { OtherPath }
            |-> IF p = OtherPath THEN << 9 >> ELSE prior_bytes(kind)]

\* the frame of create_minimal_png when no call is being stepped through
NoCall == [pc |-> "none"]

Init ==
    /\ script \in Scripts
    /\ prior \in PriorKinds
    /\ fs = prior_fs(prior)
    /\ fs0 = fs
    /\ pc = loop_pc(script)
    /\ idx = 1
    /\ png_data = << >>
    /\ handles = { }
    /\ buffer = << >>
    /\ io = << >>
    /\ console = << >>
    /\ exc = "none"
    /\ runs = 1
    /\ fn = NoCall

\* create-icons.py line 48: png_data = create_minimal_png(size, size)
Call ==
    /\ pc = "call"
    /\ png_data' = png_table[idx]
    /\ pc' = "open"
    /\ UNCHANGED << script, prior, fs, fs0, idx, handles, buffer, io, console,
                    exc, runs, fn >>

\* create-icons.py line 51, create_icons.py line 18: open(filename, 'wb')
Open ==
    /\ pc = "open"
    /\ LET f == filename(sizes[idx])
       IN /\ fs' = open_wb(fs, f)
          /\ handles' = handles \cup { f }
          /\ io' = Append(io, [op |-> "open", path |-> f])
    /\ buffer' = << >>
    /\ pc' = "write"
    /\ UNCHANGED << script, prior, fs0, idx, png_data, console, exc, runs, fn >>

\* open raises: nothing is created, no handle exists
OpenFail ==
    /\ pc = "open"
    /\ exc' = "OSError"
    /\ pc' = after_exception
    /\ UNCHANGED << script, prior, fs, fs0, idx, png_data, handles, buffer, io,
                    console, runs, fn >>

\* create-icons.py line 52, create_icons.py line 19: f.write(...) returns
\* with the bytes in the buffer; the file is still empty
Write ==
    /\ pc = "write"
    /\ buffer' = buffered(buffer, write_arg(script, png_data))
    /\ io' = Append(io, [op |-> "write", path |-> filename(sizes[idx])])
    /\ pc' = "close"
    /\ UNCHANGED << script, prior, fs, fs0, idx, png_data, handles, console,
                    exc, runs, fn >>

\* the end of the with block: f.close() flushes the buffer into the file
\* and releases the handle
Close ==
    /\ pc = "close"
    /\ LET f == filename(sizes[idx])
       IN /\ fs' = write_to(fs, f, buffer)
          /\ handles' = release(handles, f)
          /\ io' = Append(io, [op |-> "close", path |-> f])
    /\ buffer' = << >>
    /\ pc' = "print"
    /\ UNCHANGED << script, prior, fs0, idx, png_data, console, exc, runs, fn >>

\* the end of the with block when the operating system refuses the write
\* or the close: n bytes of the buffer reached the file, the file object is
\* closed all the same, and the OSError propagates out of the with block
CloseFail ==
    /\ pc = "close"
    /\ \E n \in accepted(buffer) :
         LET f == filename(sizes[idx])
         IN /\ fs' = write_to(fs, f, SubSeq(buffer, 1, n))
            /\ handles' = release(handles, f)
            /\ io' = Append(io, [op |-> "close", path |-> f])
    /\ buffer' = << >>
    /\ exc' = "OSError"
    /\ pc' = after_exception
    /\ UNCHANGED << script, prior, fs0, idx, png_data, console, runs, fn >>

\* create-icons.py line 54, create_icons.py line 20, and the next iteration
PrintStatus ==
    /\ pc = "print"
    /\ console' = Append(console, status_line(script, sizes[idx]))
    /\ idx' = idx + 1
    /\ pc' = IF idx < Len(sizes) THEN loop_pc(script) ELSE "summary"
    /\ UNCHANGED << script, prior, fs, fs0, png_data, handles, buffer, io,
                    exc, runs, fn >>

\* create-icons.py line 56, create_icons.py line 22
Summary ==
    /\ pc = "summary"
    /\ console' = Append(console, summary_lines(script)[1])
    /\ pc' = IF Len(summary_lines(script)) > 1 THEN "summary2" ELSE "done"
    /\ UNCHANGED << script, prior, fs, fs0, idx, png_data, handles, buffer, io,
                    exc, runs, fn >>

\* create_icons.py line 23
Summary2 ==
    /\ pc = "summary2"
    /\ console' = Append(console, summary_lines(script)[2])
    /\ pc' = "done"
    /\ UNCHANGED << script, prior, fs, fs0, idx, png_data, handles, buffer, io,
                    exc, runs, fn >>

\* the same script is started again in the same directory: a new process,
\* with the files as the previous run left them
Rerun ==
    /\ pc = "done"
    /\ runs < MaxRuns
    /\ runs' = runs + 1
    /\ fs0' = fs
    /\ pc' = loop_pc(script)
    /\ idx' = 1
    /\ png_data' = << >>
    /\ io' = << >>
    /\ console' = << >>
    /\ UNCHANGED << script, prior, fs, handles, buffer, exc, fn >>

Next ==
    \/ Call
    \/ Open
    \/ OpenFail
    \/ Write
    \/ Close
    \/ CloseFail
    \/ PrintStatus
    \/ Summary
    \/ Summary2
    \/ Rerun

Spec == Init /\ [][Next]_vars

(***************************************************************************)
(* create_minimal_png(width, height) statement by statement, on every      *)
(* width and height up to the bounds.                                      *)
(***************************************************************************)
MaxWidth == 4
MaxHeight == 4

\* where the function goes once y rows are done
rows_pc(y, height) == IF y < height THEN "rows" ELSE "idat"

InitPng ==
    /\ script = "create-icons.py"
    /\ prior = "absent"
    /\ fs = prior_fs(prior)
    /\ fs0 = fs
    /\ pc = "call"
    /\ idx = 1
    /\ png_data = << >>
    /\ handles = { }
    /\ buffer = << >>
    /\ io = << >>
    /\ console = << >>
    /\ exc = "none"
    /\ runs = 1
    /\ \E width \in 0 .. MaxWidth, height \in 0 .. MaxHeight :
         fn = [pc |-> "ihdr", width |-> width, height |-> height, y |-> 0,
               ihdr_chunk |-> << >>, raw_data |-> << >>, compressed |-> << >>,
               idat_chunk |-> << >>, iend_chunk |-> << >>, png_data |-> << >>]

\* lines 16-18 and line 22
PngIhdr ==
    /\ fn.pc = "ihdr"
    /\ fn' = [fn EXCEPT !.ihdr_chunk = ihdr_chunk(fn.width, fn.height),
                        !.raw_data = << >>,
                        !.pc = rows_pc(0, fn.height)]
    /\ UNCHANGED main_vars

\* lines 22-28: one iteration of the loop over y
PngRow ==
    /\ fn.pc = "rows"
    /\ fn' = [fn EXCEPT !.raw_data = fn.raw_data \o row_of(fn.width),
                        !.y = fn.y + 1,
                        !.pc = rows_pc(fn.y + 1, fn.height)]
    /\ UNCHANGED main_vars

\* lines 31-33
PngIdat ==
    /\ fn.pc = "idat"
    /\ LET compressed == zlib_compress(fn.raw_data)
       IN fn' = [fn EXCEPT !.compressed = compressed,
                           !.idat_chunk = idat_chunk(compressed),
                           !.pc = "iend"]
    /\ UNCHANGED main_vars

\* lines 36-37
PngIend ==
    /\ fn.pc = "iend"
    /\ fn' = [fn EXCEPT !.iend_chunk = iend_chunk, !.pc = "combine"]
    /\ UNCHANGED main_vars

\* lines 40-42
PngReturn ==
    /\ fn.pc = "combine"
    /\ fn' = [fn EXCEPT !.png_data = combine(fn.ihdr_chunk, fn.idat_chunk,
                                             fn.iend_chunk),
                        !.pc = "returned"]
    /\ UNCHANGED main_vars

NextPng ==
    \/ PngIhdr
    \/ PngRow
    \/ PngIdat
    \/ PngIend
    \/ PngReturn

SpecPng == InitPng /\ [][NextPng]_vars

(***************************************************************************)
(* What the claims are stated with: the sizes and the paths as the         *)
(* specification names them, and a reader of PNG files that does not rely  *)
(* on the writer.                                                          *)
(***************************************************************************)
SizeList == << 16, 32, 48, 128 >>

Targets ==
    << "assets/icons/icon16.png", "assets/icons/icon32.png",
       "assets/icons/icon48.png", "assets/icons/icon128.png" >>

TargetSet == { Targets[k] : k \in 1 .. 4 }

\* the file for the k-th size has been written and closed in this run
Closed(k) == k < idx \/ (k = idx /\ pc = "print")

\* byte k of b, or -1 past its end
byte_at(b, k) == IF k \in 1 .. Len(b) THEN b[k] ELSE -1

\* the n bytes of b from position at
bytes_at(b, at, n) == [j \in 1 .. n |-> byte_at(b, at + j - 1)]

\* the big-endian value of the 4 bytes of b at position at; -1 when they
\* are not all there or the value is 2^31 or more
be32(b, at) ==
    IF at >= 1 /\ at + 3 <= Len(b) /\ b[at] < 128
    THEN ((b[at] * 256 + b[at + 1]) * 256 + b[at + 2]) * 256 + b[at + 3]
    ELSE -1

\* the chunk of b that starts at position at, whose length field reads
\* length; a chunk that does not fit in b is not ok and has no payload
chunk_fields(b, at, length) ==
    IF length >= 0 /\ at + 11 + length <= Len(b)
    THEN [ok |-> TRUE,
          length |-> length,
          type |-> bytes_at(b, at + 4, 4),
          data |-> bytes_at(b, at + 8, length),
          crc |-> bytes_at(b, at + 8 + length, 4),
          next |-> at + 12 + length]
    ELSE [ok |-> FALSE, length |-> length, type |-> << >>, data |-> << >>,
          crc |-> << >>, next |-> Len(b) + 2]

chunk_at(b, at) == chunk_fields(b, at, be32(b, at))

\* the three chunks after the signature
chunks_from(b, c1, c2) ==
    << c1, c2, chunk_at(b, c2.next) >>

chunks_after(b, c1) == chunks_from(b, c1, chunk_at(b, c1.next))

chunks_of(b) == chunks_after(b, chunk_at(b, 9))

\* the CRC stored in chunk c is the CRC-32 of its type and payload
crc_ok(c) == c.ok /\ c.crc = PackU32(crc32(c.type \o c.data))

\* the bytes base64.b64decode returns for the blue_pixel string
reference_image ==
    << 137, 80, 78, 71, 13, 10, 26, 10, 0, 0, 0, 13, 73, 72, 68, 82, 0, 0, 0,
       1, 0, 0, 0, 1, 8, 6, 0, 0, 0, 31, 21, 196, 137, 0, 0, 0, 13, 73, 68,
       65, 84, 120, 218, 99, 100, 96, 248, 95, 15, 0, 2, 135, 1, 128, 235, 71,
       186, 146, 0, 0, 0, 0, 73, 69, 78, 68, 174, 66, 96, 130 >>

\* what a run leaves in the file of the k-th size
expected_output(s, k) ==
    IF s = "create-icons.py" THEN png_table[k] ELSE reference_image

\* the file operations of a complete run
expected_io ==
    [e \in 1 .. 12 |->
        [op |-> << "open", "write", "close" >>[((e - 1) % 3) + 1],
         path |-> Targets[((e - 1) \div 3) + 1]]]

IsPrefix(s, t) == Len(s) <= Len(t) /\ s = SubSeq(t, 1, Len(s))

\* the status lines of the two scripts
expected_status(s) ==
    IF s = "create-icons.py"
    THEN << "Created assets/icons/icon16.png", "Created assets/icons/icon32.png",
            "Created assets/icons/icon48.png", "Created assets/icons/icon128.png" >>
    ELSE << "Created icon16.png", "Created icon32.png", "Created icon48.png",
            "Created icon128.png" >>

(***************************************************************************)
(* C1: in create-icons.py, the file written for every size s begins with   *)
(* the PNG signature 89 50 4E 47 0D 0A 1A 0A, immediately followed by an   *)
(* IHDR chunk whose big-endian width and height fields both equal s.       *)
(***************************************************************************)
C1_SignatureAndIhdr ==
    script = "create-icons.py" =>
      \A k \in 1 .. 4 :
        Closed(k) =>
          /\ Targets[k] \in DOMAIN fs
          /\ bytes_at(fs[Targets[k]], 1, 8) = << 137, 80, 78, 71, 13, 10, 26, 10 >>
          /\ bytes_at(fs[Targets[k]], 13, 4) = << 73, 72, 68, 82 >>
          /\ be32(fs[Targets[k]], 17) = SizeList[k]
          /\ be32(fs[Targets[k]], 21) = SizeList[k]

C1_Witness ==
    /\ script = "create-icons.py"
    /\ pc = "done"
    /\ Targets[4] \in DOMAIN fs
    /\ be32(fs[Targets[4]], 17) = 128
    /\ be32(fs[Targets[1]], 21) = 16

(***************************************************************************)
(* C2: in create-icons.py, the file written for every size consists, after *)
(* the signature, of the chunks IHDR, IDAT and IEND, and each ends with    *)
(* the big-endian CRC-32 of its 4-byte type followed by exactly the        *)
(* payload bytes the file stores for it (none for IEND).                   *)
(***************************************************************************)
C2_ChunkCrcs ==
    script = "create-icons.py" =>
      \A k \in 1 .. 4 :
        Closed(k) =>
          /\ Targets[k] \in DOMAIN fs
          /\ \A c \in { chunks_of(fs[Targets[k]]) } :
               /\ c[1].type = << 73, 72, 68, 82 >> /\ crc_ok(c[1])
               /\ c[2].type = << 73, 68, 65, 84 >> /\ crc_ok(c[2])
               /\ c[3].type = << 73, 69, 78, 68 >> /\ crc_ok(c[3])
               /\ c[3].length = 0

C2_Witness ==
    /\ script = "create-icons.py"
    /\ pc = "done"
    /\ Targets[4] \in DOMAIN fs
    /\ chunks_of(fs[Targets[4]])[2].length = 347
    /\ crc_ok(chunks_of(fs[Targets[4]])[2])

(***************************************************************************)
(* C3: in create_icons.py, the file written for every size is, byte for    *)
(* byte, the base64 decoding of blue_pixel: the four files are the same    *)
(* whatever the size in their names.                                       *)
(***************************************************************************)
C3_SameReferenceImage ==
    script = "create_icons.py" =>
      /\ \A k \in 1 .. 4 :
           Closed(k) =>
             /\ Targets[k] \in DOMAIN fs
             /\ fs[Targets[k]] = reference_image
             /\ fs[Targets[k]] = b64decode(blue_pixel)
      /\ pc = "done" =>
           \A k \in 1 .. 4 : fs[Targets[k]] = fs[Targets[1]]

C3_Witness ==
    /\ script = "create_icons.py"
    /\ pc = "done"
    /\ Targets[4] \in DOMAIN fs
    /\ Len(fs[Targets[4]]) = 70
    /\ fs[Targets[4]] = fs[Targets[1]]

(***************************************************************************)
(* C4: a second run after a complete first run leaves each of the four     *)
(* files byte-identical to what the first run produced, and what a run     *)
(* leaves in a file does not depend on what the file held before: it is    *)
(* the output of the script for that size, whether the file was missing,   *)
(* shorter or longer before the run.                                       *)
(***************************************************************************)
C4_Idempotent ==
    pc = "done" =>
      \A k \in 1 .. 4 :
        /\ Targets[k] \in DOMAIN fs
        /\ fs[Targets[k]] = expected_output(script, k)
        /\ runs >= 2 =>
             /\ Targets[k] \in DOMAIN fs0
             /\ fs[Targets[k]] = fs0[Targets[k]]

C4_Witness ==
    /\ pc = "done"
    /\ runs = 2
    /\ prior = "long"
    /\ \A k \in 1 .. 4 : fs[Targets[k]] = fs0[Targets[k]]
    /\ Len(fs[Targets[1]]) < 600

(***************************************************************************)
(* C5: a run without I/O failure writes exactly the four files             *)
(* assets/icons/icon<SIZE>.png, SIZE in 16, 32, 48, 128, each opened,      *)
(* written and closed exactly once; at no point of any run is another path *)
(* opened or written, and no other file is created or changed.             *)
(***************************************************************************)
C5_ExactlyFourFiles ==
    /\ \A e \in 1 .. Len(io) : io[e].path \in TargetSet
    /\ DOMAIN fs \subseteq TargetSet \cup DOMAIN fs0
    /\ \A p \in DOMAIN fs0 \ TargetSet : p \in DOMAIN fs /\ fs[p] = fs0[p]
    /\ pc = "done" =>
         /\ io = expected_io
         /\ TargetSet \subseteq DOMAIN fs
         /\ \A k \in 1 .. 4 :
              Cardinality({ e \in 1 .. Len(io) :
                              io[e] = [op |-> "write", path |-> Targets[k]] }) = 1

C5_Witness ==
    /\ pc = "done"
    /\ prior = "absent"
    /\ Len(io) = 12
    /\ DOMAIN fs = TargetSet \cup { OtherPath }

(***************************************************************************)
(* C6 as the specification states it: the console output of a complete run *)
(* is the four status lines, in the order 16, 32, 48, 128, plus one final  *)
(* summary line.                                                           *)
(***************************************************************************)
C6_OneSummaryLine ==
    pc = "done" =>
      /\ Len(console) = 4 + 1
      /\ \A k \in 1 .. 4 : console[k] = expected_status(script)[k]

(***************************************************************************)
(* C6, amended: the console output of a complete run is the four status    *)
(* lines, in the order 16, 32, 48, 128, each printed only after the file   *)
(* of its size has been written and closed, followed by the final          *)
(* summary: one line in create-icons.py, two lines in create_icons.py.     *)
(***************************************************************************)
C6_StatusThenSummary ==
    /\ \A k \in 1 .. Len(console) :
         k <= 4 =>
           /\ console[k] = expected_status(script)[k]
           /\ Targets[k] \notin handles
           /\ Targets[k] \in DOMAIN fs
           /\ fs[Targets[k]] = expected_output(script, k)
           /\ \E e \in 2 .. Len(io) :
                /\ io[e] = [op |-> "close", path |-> Targets[k]]
                /\ io[e - 1] = [op |-> "write", path |-> Targets[k]]
    /\ Len(console) > 4 => pc \in { "summary2", "done" }
    /\ pc = "done" =>
         console = expected_status(script)
                   \o (IF script = "create-icons.py"
                       THEN << "All icon files created successfully!" >>
                       ELSE << "Icon files created. These are placeholder 1x1 blue pixels.",
                               "For production, replace with proper icon files." >>)

C6_Witness ==
    /\ pc = "done"
    /\ script = "create_icons.py"
    /\ Len(console) = 6
    /\ console[5] = "Icon files created. These are placeholder 1x1 blue pixels."

(***************************************************************************)
(* C7: when opening or writing the file of some size fails (a failing      *)
(* write surfaces when the with block closes the file), the script ends    *)
(* there and nothing is retried: the files of the earlier sizes keep       *)
(* their new contents, no file of a later size is opened or written, the   *)
(* console holds the status lines of the earlier sizes only (none for the  *)
(* failing or a later size, no summary), and no step follows.              *)
(***************************************************************************)
C7_FailureTerminates ==
    exc # "none" =>
      /\ pc = "failed"
      /\ ~ENABLED Next
      /\ idx \in 1 .. 4
      /\ \A k \in 1 .. 4 :
           /\ k < idx =>
                /\ Targets[k] \in DOMAIN fs
                /\ fs[Targets[k]] = expected_output(script, k)
           /\ k > idx =>
                /\ Targets[k] \in DOMAIN fs <=> Targets[k] \in DOMAIN fs0
                /\ Targets[k] \in DOMAIN fs => fs[Targets[k]] = fs0[Targets[k]]
                /\ \A e \in 1 .. Len(io) : io[e].path # Targets[k]
      /\ console = SubSeq(expected_status(script), 1, idx - 1)
      /\ Cardinality({ e \in 1 .. Len(io) :
                         io[e] = [op |-> "open", path |-> Targets[idx]] }) <= 1

C7_Witness ==
    /\ exc = "OSError"
    /\ pc = "failed"
    /\ script = "create-icons.py"
    /\ idx = 3
    /\ Len(console) = 2
    /\ Len(io) = 9
    /\ io[8] = [op |-> "write", path |-> Targets[3]]
    /\ Len(fs[Targets[2]]) = 97
    /\ Len(fs[Targets[3]]) = 100

(***************************************************************************)
(* C8: create_minimal_png(width, height) returns the signature, then the   *)
(* IHDR chunk (length 13, a payload of width, height, 8, 2, 0, 0, 0),      *)
(* then one IDAT chunk whose length field is the number of bytes of the    *)
(* compressed data that follow its type, then an IEND chunk of length 0;   *)
(* every length field is the length of its payload and nothing follows     *)
(* IEND.                                                                   *)
(***************************************************************************)
C8_PngLayout ==
    fn.pc = "returned" =>
      \A c \in { chunks_of(fn.png_data) } :
        /\ c[1].ok /\ c[2].ok /\ c[3].ok
        /\ bytes_at(fn.png_data, 1, 8) = << 137, 80, 78, 71, 13, 10, 26, 10 >>
        /\ c[1].length = 13
        /\ c[1].type = << 73, 72, 68, 82 >>
        /\ be32(c[1].data, 1) = fn.width
        /\ be32(c[1].data, 5) = fn.height
        /\ bytes_at(c[1].data, 9, 5) = << 8, 2, 0, 0, 0 >>
        /\ c[2].length = Len(fn.compressed)
        /\ c[2].type = << 73, 68, 65, 84 >>
        /\ c[2].data = fn.compressed
        /\ c[3].length = 0
        /\ c[3].type = << 73, 69, 78, 68 >>
        /\ c[3].next = Len(fn.png_data) + 1
        /\ Len(fn.png_data) = 8 + (12 + 13) + (12 + Len(fn.compressed)) + 12
        /\ fn.png_data = create_minimal_png(fn.width, fn.height)

C8_Witness ==
    /\ fn.pc = "returned"
    /\ fn.width = 3
    /\ fn.height = 2
    /\ Len(fn.compressed) > 8
    /\ Len(fn.png_data) = 57 + Len(fn.compressed)

(***************************************************************************)
(* C9: the data create_minimal_png compresses is height scanlines of       *)
(* 1 + 3 * width bytes each, a filter byte 0 followed by width times the   *)
(* bytes 00 77 B5; its length, height * (1 + 3 * width), is the one the    *)
(* width, the height, the bit depth 8 and the colour type 2 of the IHDR    *)
(* chunk call for.                                                         *)
(***************************************************************************)
C9_Scanlines ==
    /\ fn.pc = "rows" => Len(fn.raw_data) = fn.y * (1 + 3 * fn.width)
    /\ fn.pc \in { "idat", "iend", "combine", "returned" } =>
         /\ Len(fn.raw_data) = fn.height * (1 + 3 * fn.width)
         /\ \A y \in 0 .. fn.height - 1 :
              /\ fn.raw_data[y * (1 + 3 * fn.width) + 1] = 0
              /\ \A x \in 0 .. fn.width - 1 :
                   bytes_at(fn.raw_data, y * (1 + 3 * fn.width) + 2 + 3 * x, 3)
                     = << 0, 119, 181 >>
         /\ byte_at(fn.ihdr_chunk, 17) = 8
         /\ byte_at(fn.ihdr_chunk, 18) = 2
         /\ Len(fn.raw_data)
              = be32(fn.ihdr_chunk, 13)
                * (1 + (be32(fn.ihdr_chunk, 9) * 3 * byte_at(fn.ihdr_chunk, 17)) \div 8)
    /\ fn.pc \in { "iend", "combine", "returned" } =>
         /\ bytes_at(fn.compressed, 1, 2) = << 120, 156 >>
         /\ bytes_at(fn.compressed, Len(fn.compressed) - 3, 4)
              = PackU32(adler32(fn.raw_data))

C9_Witness ==
    /\ fn.pc = "returned"
    /\ fn.width = 3
    /\ fn.height = 2
    /\ fn.raw_data = << 0, 0, 119, 181, 0, 119, 181, 0, 119, 181,
                        0, 0, 119, 181, 0, 119, 181, 0, 119, 181 >>

(***************************************************************************)
(* C10: a run handles the sizes 16, 32, 48, 128 one after the other: at    *)
(* every point at most one file is open, it is the file of the current     *)
(* size, and it is closed, also when the write fails, before the next file *)
(* is opened; the bytes handed to f.write stay in the open file object     *)
(* until the close.                                                        *)
(***************************************************************************)
C10_OneHandle ==
    /\ Cardinality(handles) <= 1
    /\ IsPrefix(io, expected_io)
    /\ handles # { } =>
         /\ pc \in { "write", "close" }
         /\ idx \in 1 .. 4
         /\ handles = { Targets[idx] }
    /\ pc \in { "write", "close" } => handles = { Targets[idx] }
    /\ pc \in { "call", "open" } => handles = { }
    /\ handles = { } => buffer = << >>
    /\ pc \in { "write", "close" } => fs[Targets[idx]] = << >>
    /\ \A e \in 2 .. Len(io) : io[e].op = "open" => io[e - 1].op = "close"

C10_Witness ==
    /\ exc = "OSError"
    /\ handles = { }
    /\ idx = 2
    /\ Len(io) = 6
    /\ io[5] = [op |-> "write", path |-> Targets[2]]
    /\ io[6] = [op |-> "close", path |-> Targets[2]]
    /\ Len(fs[Targets[2]]) = 7

=============================================================================
